---------------------------- MODULE Spec2Model ----------------------------
(***************************************************************************)
(* Model of scripts/sales_prediction.py: main() reads data/vgsales.csv,    *)
(* fits CountVectorizer, OneHotEncoder, MaxAbsScaler and a                 *)
(* RandomForestRegressor into four module globals, then opens MainWindow,  *)
(* whose "Predict Sales" button runs MainWindow.predict and whose two      *)
(* chart combo boxes run update_xlabel / update_chart.                     *)
(*                                                                         *)
(* Conventions.  A Python str that is tokenised (a title) or parsed (a     *)
(* combo-box text handed to int()) or displayed (the prediction text) is a *)
(* sequence of one-character strings.  A categorical value (platform,      *)
(* genre, publisher) is a TLA+ string, ordered by StrRank.  Global_Sales   *)
(* is an integer count of hundredths.  A real number produced by a         *)
(* division is a record [num, den].                                        *)
(***************************************************************************)
EXTENDS Integers, Sequences, FiniteSets, TLC

VARIABLES
    file,               \* what data/vgsales.csv holds (the environment)
    pc,                 \* position of main()
    stdout,             \* diagnostics printed so far
    data,               \* main's local `data`
    name_vectors,       \* main's local `name_vectors`
    other_vectors,      \* main's local `other_vectors`
    x_normalized,       \* main's local `x_normalized`
    vectorizer,         \* module global (line 21)
    encoder,            \* module global (line 22)
    scaler,             \* module global (line 23)
    model,              \* module global (line 20)
    fit_log,            \* the load / fit calls main has completed, in order
    window,             \* the MainWindow, once constructed
    prediction_output,  \* text of MainWindow.prediction_output
    axs1,               \* middle chart: drawn by update_chart
    axs2,               \* right chart: one line per prediction
    req                 \* the last run of MainWindow.predict: what it read and did

vars == << file, pc, stdout, data, name_vectors, other_vectors,
           x_normalized, vectorizer, encoder, scaler, model, fit_log, window,
           prediction_output, axs1, axs2, req >>

---------------------------------------------------------------------------
(* Bounds of the model *)

\* longest title a user types into title_input
MaxTitleLen == 2
\* year_input holds FirstYear .. FirstYear + MaxYearItems - 1 (the code: 43 years)
MaxYearItems == 2
\* clicks on "Predict Sales" the model follows
MaxClicks == 2
\* distinct entropy values the forest's random_state=None may draw
MaxSeed == 2

(* Program constants *)
FirstYear == 1980
n_estimators == 10
round_decimals == 4

---------------------------------------------------------------------------
(* Python values *)

None == [kind |-> "None"]

\* a check that also takes "" for a missing value
IsNullStrict(v) == v.kind \in {"None", "nan"} \/ v.empty
\* pd.isnull on a scalar: None and NaN are null; a str (even "") and an int are not
IsNull(v) == v.kind \in {"None", "nan"}

\* the scalars predict hands to pd.isnull: their type, and whether a str is ""
PyStr(s) == [kind |-> "str", empty |-> s = << >>]
PyCat(c) == [kind |-> "str", empty |-> c = ""]
PyInt(n) == [kind |-> "int", empty |-> FALSE]

RECURSIVE SeqSum(_)
SeqSum(s) == IF s = << >> THEN 0 ELSE Head(s) + SeqSum(Tail(s))

RECURSIVE Concat(_)
Concat(ss) == IF ss = << >> THEN << >> ELSE Head(ss) \o Concat(Tail(ss))

Max(S) == CHOOSE x \in S : \A y \in S : y <= x

\* F applied to the value of v, v being worked out once
Bind(v, F(_)) == CHOOSE r \in { F(x) : x \in {v} } : TRUE

RECURSIVE Gcd(_, _)
Gcd(a, b) == IF b = 0 THEN a ELSE Gcd(b, a % b)

RECURSIVE Pow10(_)
Pow10(k) == IF k = 0 THEN 1 ELSE 10 * Pow10(k - 1)

---------------------------------------------------------------------------
(* Characters and strings *)

\* the characters a user types: a letter (upper case) and a blank
Alphabet == {"B", " "}
Digits == <<"0", "1", "2", "3", "4", "5", "6", "7", "8", "9">>

\* str.lower()
Lower(c) == IF c = "B" THEN "b" ELSE IF c = "A" THEN "a" ELSE c
\* \w of the token pattern
IsWordChar(c) == c \in {"a", "b", "A", "B"} \/ \E i \in 1..10 : Digits[i] = c
\* code point order of the lower-cased word characters that occur
CharRank(c) == IF c = "a" THEN 1 ELSE IF c = "b" THEN 2 ELSE 0

\* lexicographic order on tokens, the order of sorted()
RECURSIVE TokenLess(_, _)
TokenLess(s, t) ==
    IF s = << >> THEN t # << >>
    ELSE IF t = << >> THEN FALSE
    ELSE IF CharRank(Head(s)) # CharRank(Head(t))
         THEN CharRank(Head(s)) < CharRank(Head(t))
    ELSE TokenLess(Tail(s), Tail(t))

\* alphabetical order of the categorical strings that occur
StrOrder == <<"Action", "Atari", "Namco", "Puzzle", "Wii">>
StrRank(s) == CHOOSE i \in 1..Len(StrOrder) : StrOrder[i] = s

\* str(n) of a non-negative int
RECURSIVE IntToStr(_)
IntToStr(n) == IF n < 10 THEN << Digits[n + 1] >>
               ELSE IntToStr(n \div 10) \o << Digits[(n % 10) + 1] >>

DigitVal(c) == (CHOOSE i \in 1..10 : Digits[i] = c) - 1
IsDigit(c) == \E i \in 1..10 : Digits[i] = c

\* int(s) of a str without sign or blanks: the value, or ValueError
RECURSIVE DigitsValue(_, _)
DigitsValue(s, acc) == IF s = << >> THEN acc
                       ELSE DigitsValue(Tail(s), 10 * acc + DigitVal(Head(s)))
ParseInt(s) ==
    IF s # << >> /\ \A i \in 1..Len(s) : IsDigit(s[i])
    THEN [ok |-> TRUE, val |-> DigitsValue(s, 0)]
    ELSE [ok |-> FALSE, val |-> 0]

\* sorted(S) as a sequence, for a strict total order Less
RECURSIVE SortTokens(_)
SortTokens(S) ==
    IF S = {} THEN << >>
    ELSE LET m == CHOOSE x \in S : \A y \in S \ {x} : TokenLess(x, y)
         IN << m >> \o SortTokens(S \ {m})
RECURSIVE SortInts(_)
SortInts(S) ==
    IF S = {} THEN << >>
    ELSE LET m == CHOOSE x \in S : \A y \in S : x <= y
         IN << m >> \o SortInts(S \ {m})
RECURSIVE SortStrs(_)
SortStrs(S) ==
    IF S = {} THEN << >>
    ELSE LET m == CHOOSE x \in S : \A y \in S : StrRank(x) <= StrRank(y)
         IN << m >> \o SortStrs(S \ {m})

Column(rows, f) == { rows[i][f] : i \in 1..Len(rows) }

---------------------------------------------------------------------------
(* CountVectorizer(): lowercase=True, token_pattern (?u)\b\w\w+\b *)

Flush(cur, acc) == IF Len(cur) >= 2 THEN Append(acc, cur) ELSE acc

\* the maximal runs of two or more word characters of the lower-cased text
RECURSIVE Scan(_, _, _)
Scan(s, cur, acc) ==
    IF s = << >> THEN Flush(cur, acc)
    ELSE LET c == Lower(Head(s))
         IN IF IsWordChar(c) THEN Scan(Tail(s), Append(cur, c), acc)
            ELSE Scan(Tail(s), << >>, Flush(cur, acc))

Tokenize(s) == Scan(s, << >>, << >>)

Count(tokens, term) == Cardinality({ i \in 1..Len(tokens) : tokens[i] = term })

\* vectorizer.fit(game_titles): the sorted set of tokens of all titles
Vocabulary(titles) ==
    SortTokens(UNION { { Tokenize(titles[i])[j] : j \in 1..Len(Tokenize(titles[i])) }
                       : i \in 1..Len(titles) })

\* vectorizer.transform([title]): one count per vocabulary term
VectorizerTransform(v, title) ==
    [ j \in 1..Len(v.vocabulary_) |-> Count(Tokenize(title), v.vocabulary_[j]) ]

---------------------------------------------------------------------------
(* OneHotEncoder(handle_unknown="ignore") on (Year, Platform, Genre, Publisher) *)

OtherFields == <<"Year", "Platform", "Genre", "Publisher">>

\* encoder.fit(x_other): the sorted distinct values of each column
Categories(rows) ==
    << SortInts(Column(rows, "Year")), SortStrs(Column(rows, "Platform")),
       SortStrs(Column(rows, "Genre")), SortStrs(Column(rows, "Publisher")) >>

\* handle_unknown mistaken: an unseen value falls into the first category
OneHotBlockFirst(cats, v) ==
    [ j \in 1..Len(cats) |->
        IF cats[j] = v \/ (j = 1 /\ \A k \in 1..Len(cats) : cats[k] # v)
        THEN 1 ELSE 0 ]
\* the indicator block of one field: all zero for a value not in cats
OneHotBlock(cats, v) == [ j \in 1..Len(cats) |-> IF cats[j] = v THEN 1 ELSE 0 ]

\* a transform that emits no block at all for an unseen value
EncoderTransformDrop(e, row) ==
    Concat([ f \in 1..4 |->
        IF \E k \in 1..Len(e.categories_[f]) : e.categories_[f][k] = row[OtherFields[f]]
        THEN OneHotBlock(e.categories_[f], row[OtherFields[f]])
        ELSE << >> ])
\* encoder.transform(game_other): the four blocks side by side
EncoderTransform(e, row) ==
    Concat([ f \in 1..4 |-> OneHotBlock(e.categories_[f], row[OtherFields[f]]) ])

\* where the block of field f starts and ends in a feature vector
BlockStart(v, e, f) ==
    Len(v.vocabulary_) + SeqSum([ g \in 1..(f - 1) |-> Len(e.categories_[g]) ]) + 1
BlockEnd(v, e, f) == BlockStart(v, e, f) + Len(e.categories_[f]) - 1

---------------------------------------------------------------------------
(* MaxAbsScaler() *)

Abs(x) == IF x < 0 THEN -x ELSE x

\* scaler.fit(x_encoded): per column, the largest |value|; a zero maximum scales by 1
ScaleOf(X) ==
    [ c \in 1..Len(X[1]) |->
        LET m == Max({ Abs(X[i][c]) : i \in 1..Len(X) })
        IN IF m = 0 THEN 1 ELSE m ]

\* the quotient a / b of two counts, in lowest terms
Quotient(a, b) == [ num |-> a \div Gcd(a, b), den |-> b \div Gcd(a, b) ]

\* scaler.transform(row): each column divided by its scale
ScalerTransform(sc, vec) ==
    [ c \in 1..Len(vec) |-> Quotient(vec[c], sc.scale_[c]) ]

---------------------------------------------------------------------------
(* RandomForestRegressor(n_estimators=10), random_state unset.              *)
(* A tree is grown to purity on a bootstrap sample of the rows, so what it  *)
(* answers is the mean target of in-bag training rows.  The forest is kept  *)
(* as the bags with the training matrix: a tree answers with the in-bag     *)
(* rows that agree with the query on the most columns, weighted by how      *)
(* often the bag drew them.  Draw stands for numpy's generator: one forest  *)
(* per entropy value.                                                       *)

Draw(s, t, j, n) == ((s * j + t * j * j + ((t * t) \div 4)) % n) + 1

\* how often tree t of a forest seeded s drew each of the n rows
Bootstrap(s, t, n) ==
    [ i \in 1..n |-> Cardinality({ j \in 1..n : Draw(s, t, j, n) = i }) ]

\* model.fit(x_normalized, y)
ForestFit(X, y, s) ==
    [ kind |-> "RandomForestRegressor",
      bags |-> [ t \in 1..n_estimators |-> Bootstrap(s, t, Len(X)) ],
      X |-> X, y |-> y ]

\* on how many columns a training row and a query coincide
Agree(x, q) == SeqSum([ c \in 1..Len(q) |-> IF c <= Len(x) /\ x[c] = q[c] THEN 1 ELSE 0 ])

\* one tree's answer in hundredths, as a fraction; agree[i] is the number of
\* columns on which training row i and the query coincide
TreePredict(bag, agree, y) ==
    Bind(Max({ agree[i] : i \in { k \in DOMAIN bag : bag[k] > 0 } }),
         LAMBDA best :
            [ num |-> SeqSum([ i \in DOMAIN bag |->
                                 IF agree[i] = best THEN bag[i] * y[i] ELSE 0 ]),
              den |-> SeqSum([ i \in DOMAIN bag |->
                                 IF agree[i] = best THEN bag[i] ELSE 0 ]) ])

\* the least common multiple of 1..n: a denominator every tree's answer fits
RECURSIVE LcmUpTo(_)
LcmUpTo(n) == IF n <= 1 THEN 1 ELSE LET l == LcmUpTo(n - 1) IN (l * n) \div Gcd(l, n)

\* model.predict(row)[0]: the mean of the trees' answers, in millions
ModelPredict(m, q) ==
    Bind(<< LcmUpTo(Len(m.X)), [ i \in 1..Len(m.X) |-> Agree(m.X[i], q) ] >>,
         LAMBDA la :
            [ num |-> SeqSum([ t \in 1..n_estimators |->
                         Bind(TreePredict(m.bags[t], la[2], m.y),
                              LAMBDA b : b.num * (la[1] \div b.den)) ]),
              den |-> la[1] * n_estimators * 100 ])

---------------------------------------------------------------------------
(* numpy.float64.round(4) and str() of the result *)

\* rounding that drops the digits after the fourth
RoundTrunc(p, k) == [ num |-> (p.num * Pow10(k)) \div p.den, den |-> Pow10(k) ]
\* p.round(k): the nearest multiple of 10^-k, a tie going to the even one
Round(p, k) ==
    LET a == p.num * Pow10(k)
        q == a \div p.den
        r == a % p.den
        n == IF 2 * r < p.den THEN q
             ELSE IF 2 * r > p.den THEN q + 1
             ELSE IF q % 2 = 0 THEN q ELSE q + 1
    IN [ num |-> n, den |-> Pow10(k) ]

RECURSIVE StripZeros(_)
StripZeros(s) == IF Len(s) > 1 /\ s[Len(s)] = "0"
                 THEN StripZeros(SubSeq(s, 1, Len(s) - 1)) ELSE s

RECURSIVE PadLeft(_, _)
PadLeft(s, k) == IF Len(s) >= k THEN s ELSE PadLeft(<<"0">> \o s, k)

\* str(x) of a float64 holding r.num / 10^k: the shortest digits that read back
\* as x, at least one of them after the point
FloatStr(r, k) ==
    IntToStr(r.num \div r.den) \o <<".">>
        \o StripZeros(PadLeft(IntToStr(r.num % r.den), k))

---------------------------------------------------------------------------
(* What data/vgsales.csv may hold *)

Row(n, y, p, g, pub, s) ==
    [ Name |-> n, Year |-> y, Platform |-> p, Genre |-> g, Publisher |-> pub,
      Global_Sales |-> s ]

\* two records of two years and two publishers; no title word can be typed
\* with the characters of Alphabet
TableTwo ==
    << Row(<<"a", "B">>, 1980, "Atari", "Action", "Atari", 500),
       Row(<<"a", "a", " ", "a", "B">>, 1981, "Atari", "Action", "Namco", 700) >>

\* three records of one year, two of them alike but for the title's word count
TableThree ==
    << Row(<<"B", "B">>, 1981, "Wii", "Action", "Namco", 1),
       Row(<<"B", "B", " ", "B", "B">>, 1981, "Wii", "Action", "Namco", 2),
       Row(<<"a", "B">>, 1981, "Wii", "Puzzle", "Namco", 4) >>

\* a record whose title has no token of two characters
TableNoToken == << Row(<<"a">>, 1980, "Wii", "Action", "Namco", 3) >>

Unreadable == [ kind |-> "unreadable", rows |-> << >> ]
Table(rows) == [ kind |-> "table", rows |-> rows ]

FileContents ==
    { Unreadable, Table(<< >>), Table(TableNoToken), Table(TableTwo), Table(TableThree) }

---------------------------------------------------------------------------
(* main() *)

NoVector == << >>
NoReq ==
    [ n |-> 0, title |-> << >>, year_text |-> << >>, year |-> 0, platform |-> "",
      genre |-> "", publisher |-> "", outcome |-> "none", calls |-> << >>,
      game_vector |-> NoVector, prediction |-> [num |-> 0, den |-> 1],
      rounded |-> [num |-> 0, den |-> 1], text |-> << >> ]
NoChart == [ lines |-> 0, title |-> "", last |-> None ]

Init ==
    /\ file \in FileContents
    /\ pc = "start"
    /\ stdout = << >>
    /\ data = << >>
    /\ name_vectors = << >>
    /\ other_vectors = << >>
    /\ x_normalized = << >>
    /\ vectorizer = None
    /\ encoder = None
    /\ scaler = None
    /\ model = None
    /\ fit_log = << >>
    /\ window = None
    /\ prediction_output = << >>
    /\ axs1 = NoChart
    /\ axs2 = NoChart
    /\ req = NoReq

\* lines 192-198: pd.read_csv raises on a file it cannot read; an empty table
\* prints the diagnostic and returns
ReadCsv ==
    /\ pc = "start"
    /\ IF file.kind = "unreadable"
       THEN /\ pc' = "raised"
            /\ stdout' = Append(stdout, "Reading training data")
            /\ UNCHANGED << data, fit_log >>
       ELSE IF file.rows = << >>
       THEN /\ pc' = "returned"
            /\ stdout' = stdout \o <<"Reading training data", "Unable to read data source file">>
            /\ UNCHANGED << data, fit_log >>
       ELSE /\ pc' = "loaded"
            /\ stdout' = Append(stdout, "Reading training data")
            /\ data' = file.rows
            /\ fit_log' = Append(fit_log, "load")
    /\ UNCHANGED << file, name_vectors, other_vectors, x_normalized, vectorizer,
                    encoder, scaler, model, window, prediction_output, axs1, axs2, req >>

\* lines 202-218: CountVectorizer.fit raises ValueError on an empty vocabulary,
\* after the global was bound to the unfitted object
FitVectorizer ==
    /\ pc = "loaded"
    /\ LET titles == [ i \in 1..Len(data) |-> data[i].Name ]
           vocab == Vocabulary(titles)
           v == [ kind |-> "CountVectorizer", vocabulary_ |-> vocab ]
       IN /\ vectorizer' = v
          /\ stdout' = stdout \o <<"Selecting the data", "Vectorizing game titles">>
          /\ IF vocab = << >>
             THEN /\ pc' = "raised"
                  /\ UNCHANGED << name_vectors, fit_log >>
             ELSE /\ pc' = "vectorized"
                  /\ name_vectors' =
                         [ i \in 1..Len(data) |-> VectorizerTransform(v, titles[i]) ]
                  /\ fit_log' = Append(fit_log, "vectorizer.fit")
    /\ UNCHANGED << file, data, other_vectors, x_normalized, encoder, scaler, model,
                    window, prediction_output, axs1, axs2, req >>

\* lines 222-226
FitEncoder ==
    /\ pc = "vectorized"
    /\ LET e == [ kind |-> "OneHotEncoder", categories_ |-> Categories(data) ]
       IN /\ encoder' = e
          /\ other_vectors' = [ i \in 1..Len(data) |-> EncoderTransform(e, data[i]) ]
    /\ stdout' = Append(stdout, "Encoding year, platform, genre, and publisher data")
    /\ fit_log' = Append(fit_log, "encoder.fit")
    /\ pc' = "encoded"
    /\ UNCHANGED << file, data, name_vectors, x_normalized, vectorizer, scaler, model,
                    window, prediction_output, axs1, axs2, req >>

\* lines 229-236
FitScaler ==
    /\ pc = "encoded"
    /\ LET x_encoded == [ i \in 1..Len(data) |-> name_vectors[i] \o other_vectors[i] ]
           sc == [ kind |-> "MaxAbsScaler", scale_ |-> ScaleOf(x_encoded) ]
       IN /\ scaler' = sc
          /\ x_normalized' = [ i \in 1..Len(data) |-> ScalerTransform(sc, x_encoded[i]) ]
    /\ stdout' = stdout \o <<"Concatenating data", "Normalizing data">>
    /\ fit_log' = Append(fit_log, "scaler.fit")
    /\ pc' = "normalized"
    /\ UNCHANGED << file, data, name_vectors, other_vectors, vectorizer, encoder, model,
                    window, prediction_output, axs1, axs2, req >>

\* a main that prints "Model trained!" without calling model.fit
FitModelSkipped ==
    /\ pc = "normalized"
    /\ stdout' = stdout \o <<"Training random forest regression model", "Model trained!">>
    /\ pc' = "trained"
    /\ UNCHANGED << file, data, name_vectors, other_vectors, x_normalized, vectorizer,
                    encoder, scaler, model, fit_log, window, prediction_output, axs1,
                    axs2, req >>
\* lines 240-250
FitModel ==
    /\ pc = "normalized"
    /\ \E s \in 1..MaxSeed :
          model' = ForestFit(x_normalized,
                             [ i \in 1..Len(data) |-> data[i].Global_Sales ], s)
    /\ stdout' = stdout \o <<"Training random forest regression model", "Model trained!",
                             "R-squared value of the model">>
    /\ fit_log' = Append(fit_log, "model.fit")
    /\ pc' = "trained"
    /\ UNCHANGED << file, data, name_vectors, other_vectors, x_normalized, vectorizer,
                    encoder, scaler, window, prediction_output, axs1, axs2, req >>

---------------------------------------------------------------------------
(* MainWindow *)

\* lines 136-147: the file is read again; the chart shows the rows whose column
\* xLabel holds xString
ChartOf(xLabel, xString) ==
    [ lines |-> 1, title |-> xString,
      last |-> { << file.rows[i].Year, file.rows[i].Global_Sales >> :
                   i \in { k \in 1..Len(file.rows) : file.rows[k][xLabel] = xString } } ]

\* lines 100-101: the item data of the two entries of xlabel
SubCategories(w, label) == IF label = "Genre" THEN w.genre_input ELSE w.platform_input

\* lines 252-255 and 26-126: the window is built from the table main loaded;
\* __init__ ends its chart set-up with update_xlabel(0)
CreateWindow ==
    /\ pc = "trained"
    /\ LET genres == SortStrs(Column(data, "Genre"))
           platforms == SortStrs(Column(data, "Platform"))
       IN /\ window' =
                [ kind |-> "MainWindow",
                  year_input |-> [ i \in 1..MaxYearItems |-> IntToStr(FirstYear + i - 1) ],
                  platform_input |-> platforms,
                  genre_input |-> genres,
                  publisher_input |-> SortStrs(Column(data, "Publisher")),
                  xlabel |-> "Genre",
                  xaxis |-> genres,
                  xaxis_current |-> genres[1] ]
          /\ axs1' = ChartOf("Genre", genres[1])
    /\ pc' = "ready"
    /\ UNCHANGED << file, stdout, data, name_vectors, other_vectors, x_normalized,
                    vectorizer, encoder, scaler, model, fit_log, prediction_output,
                    axs2, req >>

\* lines 128-134: the user picks the other entry of xlabel
UpdateXlabel ==
    /\ pc = "ready"
    /\ \E label \in {"Genre", "Platform"} :
          /\ label # window.xlabel
          /\ LET sub == SubCategories(window, label)
             IN /\ window' = [ window EXCEPT !.xlabel = label, !.xaxis = sub,
                                             !.xaxis_current = sub[1] ]
                /\ axs1' = ChartOf(label, sub[1])
    /\ UNCHANGED << file, pc, stdout, data, name_vectors, other_vectors, x_normalized,
                    vectorizer, encoder, scaler, model, fit_log, prediction_output,
                    axs2, req >>

\* lines 106 and 136-147: the user picks another entry of xaxis
UpdateChart ==
    /\ pc = "ready"
    /\ \E i \in 1..Len(window.xaxis) :
          /\ window.xaxis[i] # window.xaxis_current
          /\ window' = [ window EXCEPT !.xaxis_current = window.xaxis[i] ]
          /\ axs1' = ChartOf(window.xlabel, window.xaxis[i])
    /\ UNCHANGED << file, pc, stdout, data, name_vectors, other_vectors, x_normalized,
                    vectorizer, encoder, scaler, model, fit_log, prediction_output,
                    axs2, req >>

\* what a user can type into title_input
Titles == UNION { [ 1..n -> Alphabet ] : n \in 0..MaxTitleLen }
\* a handler that fits the scaler anew on the request's row
GlobalsRefit(game_vector) ==
    << vectorizer, encoder,
       IF game_vector = << >> THEN scaler
       ELSE [ scaler EXCEPT !.scale_ =
                ScaleOf(<< [ c \in 1..Len(game_vector) |->
                               (game_vector[c].num * scaler.scale_[c])
                                   \div game_vector[c].den ] >>) ],
       model >>
\* lines 149-187 bind none of the four globals, and transform / predict leave
\* the fitted objects as they are
GlobalsAfterPredict(game_vector) == << vectorizer, encoder, scaler, model >>

\* lines 150-178: what predict computes from the five widget texts
Handle(title, year_text, platform, genre, publisher) ==
    Bind(ParseInt(year_text), LAMBDA parsed :
    Bind([ NoReq EXCEPT !.n = req.n + 1, !.title = title, !.year_text = year_text,
                        !.year = parsed.val, !.platform = platform, !.genre = genre,
                        !.publisher = publisher ], LAMBDA read :
    \* line 151: int() raises ValueError
    IF ~parsed.ok THEN [ read EXCEPT !.outcome = "raised" ]
    \* lines 157-159
    ELSE IF \E v \in { PyStr(title), PyInt(parsed.val), PyCat(platform), PyCat(genre),
                       PyCat(publisher) } : IsNull(v)
    THEN [ read EXCEPT !.outcome = "rejected" ]
    \* lines 161-171
    ELSE Bind(VectorizerTransform(vectorizer, title)
                \o EncoderTransform(encoder, [ Year |-> parsed.val, Platform |-> platform,
                                               Genre |-> genre, Publisher |-> publisher ]),
              LAMBDA game_vector :
    \* line 172: a row of another width is refused with ValueError
    IF Len(game_vector) # Len(scaler.scale_)
    THEN [ read EXCEPT !.outcome = "raised",
                       !.calls = <<"vectorizer.transform", "encoder.transform",
                                   "scaler.transform">> ]
    ELSE Bind(ScalerTransform(scaler, game_vector), LAMBDA game_vector_normalized :
    \* lines 174-178
         Bind(ModelPredict(model, game_vector_normalized), LAMBDA prediction :
         Bind(Round(prediction, round_decimals), LAMBDA rounded :
            [ read EXCEPT !.outcome = "accepted",
                          !.calls = <<"vectorizer.transform", "encoder.transform",
                                      "scaler.transform", "model.predict">>,
                          !.game_vector = game_vector_normalized,
                          !.prediction = prediction,
                          !.rounded = rounded,
                          !.text = FloatStr(rounded, round_decimals) ]))))))

\* lines 149-187: a click on "Predict Sales".  The chart keeps the number of
\* lines drawn and the last one; the marker colour (line 182) is left out
Predict ==
    /\ pc = "ready"
    /\ req.n < MaxClicks
    /\ \E title \in Titles,
          yi \in 1..Len(window.year_input), pi \in 1..Len(window.platform_input),
          gi \in 1..Len(window.genre_input), bi \in 1..Len(window.publisher_input) :
          req' = Handle(title, window.year_input[yi], window.platform_input[pi],
                        window.genre_input[gi], window.publisher_input[bi])
    /\ IF req'.outcome = "accepted"
       THEN /\ prediction_output' = req'.text
            /\ axs2' = [ lines |-> axs2.lines + 1, title |-> "Predicted Sales",
                         last |-> [ kind |-> "Line2D", Year |-> req'.year,
                                    Global_Sales |-> req'.rounded ] ]
            /\ stdout' = stdout
       ELSE /\ stdout' = IF req'.outcome = "rejected"
                         THEN Append(stdout, "One or more of the input values is invalid")
                         ELSE stdout
            /\ UNCHANGED << prediction_output, axs2 >>
    /\ LET g == GlobalsAfterPredict(req'.game_vector)
       IN /\ vectorizer' = g[1]
          /\ encoder' = g[2]
          /\ scaler' = g[3]
          /\ model' = g[4]
    /\ UNCHANGED << file, pc, data, name_vectors, other_vectors, x_normalized, fit_log,
                    window, axs1 >>

Next ==
    \/ ReadCsv
    \/ FitVectorizer
    \/ FitEncoder
    \/ FitScaler
    \/ FitModel
    \/ CreateWindow
    \/ UpdateXlabel
    \/ UpdateChart
    \/ Predict

Spec == Init /\ [][Next]_vars

---------------------------------------------------------------------------
(* Vocabulary of the properties *)

Ready == pc = "ready"
Handled == req.n > 0
Accepted == req.outcome = "accepted"
Fitted(g) == g.kind # "None"

FitOrder == <<"load", "vectorizer.fit", "encoder.fit", "scaler.fit", "model.fit">>
IsPrefix(s, t) == Len(s) <= Len(t) /\ \A i \in 1..Len(s) : s[i] = t[i]

AllCalls == <<"vectorizer.transform", "encoder.transform", "scaler.transform",
              "model.predict">>

\* the request's value for one-hot field f is none of the training table's
Unseen(f) ==
    IF f = 1 THEN req.year \notin Column(data, "Year")
    ELSE IF f = 2 THEN req.platform \notin Column(data, "Platform")
    ELSE IF f = 3 THEN req.genre \notin Column(data, "Genre")
    ELSE req.publisher \notin Column(data, "Publisher")

\* the columns of the last feature vector between two positions are all zero
ZeroBetween(lo, hi) == \A c \in lo..hi : req.game_vector[c].num = 0

\* number of characters of a text after its decimal point
PointAt(t) == CHOOSE i \in 1..Len(t) : t[i] = "."
Decimals(t) == Len(t) - PointAt(t)
\* the number a decimal text denotes, in units of 10^-round_decimals
TextValue(t) ==
    LET frac == SubSeq(t, PointAt(t) + 1, Len(t))
    IN DigitsValue(SubSeq(t, 1, PointAt(t) - 1), 0) * Pow10(round_decimals)
         + DigitsValue(frac, 0) * Pow10(round_decimals - Len(frac))

\* the training matrix and the transform of the last request, worked out from
\* the table main loaded alone
FitFromData ==
    LET v == [ vocabulary_ |-> Vocabulary([ i \in 1..Len(data) |-> data[i].Name ]) ]
        e == [ categories_ |-> Categories(data) ]
        X == [ i \in 1..Len(data) |->
                 VectorizerTransform(v, data[i].Name) \o EncoderTransform(e, data[i]) ]
    IN [ v |-> v, e |-> e, sc |-> [ scale_ |-> ScaleOf(X) ] ]
TransformFromData ==
    Bind(FitFromData, LAMBDA f :
        ScalerTransform(f.sc,
            VectorizerTransform(f.v, req.title)
              \o EncoderTransform(f.e, [ Year |-> req.year, Platform |-> req.platform,
                                         Genre |-> req.genre,
                                         Publisher |-> req.publisher ])))

Printed(msg) == \E i \in 1..Len(stdout) : stdout[i] = msg
Blank(t) == \A i \in 1..Len(t) : t[i] = " "
SameRow(i) ==
    /\ req.year = data[i].Year
    /\ req.platform = data[i].Platform
    /\ req.genre = data[i].Genre
    /\ req.publisher = data[i].Publisher

---------------------------------------------------------------------------
(* C1 *)

\* C1 as stated: a handled request with a missing or empty field (title, year,
\* platform, genre or publisher) is rejected: the failure is printed, neither
\* the encoder nor model.predict is called, and no number is produced.
C1_AnyEmptyFieldRejected ==
    ( Handled /\ ( req.title = << >> \/ req.year_text = << >> \/ req.platform = ""
                   \/ req.genre = "" \/ req.publisher = "" ) )
        => ( req.outcome = "rejected" /\ req.calls = << >> /\ req.text = << >>
             /\ Printed("One or more of the input values is invalid") )

\* C1 as amended: predict rejects only on a null value (None / NaN), and the
\* window hands it strings and an int: no request is rejected, and a request
\* whose title is the empty string goes through the vectorizer, the encoder,
\* the scaler and model.predict and writes a number.  A rejection, were there
\* one, would call nothing and write nothing.
C1_RejectsOnlyNull ==
    Handled =>
        /\ req.outcome # "rejected"
        /\ ~Printed("One or more of the input values is invalid")
        /\ req.title = << >> =>
              ( Accepted /\ req.calls = AllCalls /\ req.text # << >>
                /\ prediction_output = req.text )

C1_EmptyTitleHandled ==
    Handled /\ req.title = << >> /\ req.calls = AllCalls

---------------------------------------------------------------------------
(* C2 *)

C2_Order ==
    /\ IsPrefix(fit_log, FitOrder)
    /\ Ready <=> window.kind = "MainWindow"
    /\ Ready => ( fit_log = FitOrder /\ Fitted(vectorizer) /\ Fitted(encoder)
                  /\ Fitted(scaler) /\ Fitted(model) )
    /\ Fitted(model) => fit_log = FitOrder
    /\ Handled => Ready

\* C2: load, vectorizer fit, encoder fit, scaler fit and model fit complete in
\* that order, each once, before the window exists and before any request is
\* handled; the window exists exactly in the Ready state; and from Ready the
\* program neither leaves Ready nor fits again.
C2_FitOnceThenReady ==
    /\ []C2_Order
    /\ [][ Ready => ( pc' = "ready" /\ fit_log' = fit_log ) ]_vars

C2_ReadyAndServing == Ready /\ Handled /\ fit_log = FitOrder

---------------------------------------------------------------------------
(* C3 *)

\* C3: once fitting has finished, no step (a prediction request, a change of
\* the chart's x label or x value) changes the vocabulary, the category lists,
\* the scale or the forest.
C3_FittedStateFrozen ==
    [][ (pc \in {"trained", "ready"}) =>
            (UNCHANGED << vectorizer, encoder, scaler, model >>) ]_vars

C3_RequestsAndChartsDone ==
    Ready /\ req.n >= 2 /\ Accepted /\ window.xlabel = "Platform"

---------------------------------------------------------------------------
(* C5 *)

\* C5 as stated: with the training file unreadable or the table empty, main
\* ends by returning after the diagnostic, with the four globals None, no
\* window and no request ever handled.
C5_StartupAbortsGracefully ==
    ( (file.kind = "unreadable" \/ file.rows = << >>) /\ pc # "start" )
        => /\ pc = "returned"
           /\ Printed("Unable to read data source file")
           /\ ~Fitted(vectorizer) /\ ~Fitted(encoder) /\ ~Fitted(scaler)
           /\ ~Fitted(model)
           /\ window = None
           /\ ~Handled

---------------------------------------------------------------------------
(* C6 *)

\* C6: when the request's year (platform, genre, publisher) is none of the
\* training table's, the request is accepted, the one-hot block of that field
\* in its feature vector is all zero, and a number is written.
C6_UnseenValueZeroBlock ==
    Handled =>
        \A f \in 1..4 :
            Unseen(f) =>
                /\ Accepted
                /\ ZeroBetween(BlockStart(FitFromData.v, FitFromData.e, f),
                               BlockEnd(FitFromData.v, FitFromData.e, f))
                /\ Decimals(prediction_output) >= 1

C6_UnseenYearServed ==
    Accepted /\ req.year \notin Column(data, "Year") /\ req.calls = AllCalls
        /\ prediction_output = req.text

---------------------------------------------------------------------------
(* C7 *)

\* C7: a request whose title is empty or all blanks is accepted; the title
\* columns of its feature vector are all zero and a number is written.
C7_BlankTitleAccepted ==
    ( Handled /\ Blank(req.title) ) =>
        /\ Accepted
        /\ ZeroBetween(1, Len(FitFromData.v.vocabulary_))
        /\ prediction_output = req.text
        /\ Decimals(prediction_output) >= 1

C7_EmptyTitleServed ==
    Accepted /\ req.title = << >> /\ Decimals(prediction_output) >= 1

---------------------------------------------------------------------------
(* C8 *)

\* C8: every request's feature vector is as wide as the rows of the training
\* matrix, title columns first and then the year, platform, genre and
\* publisher blocks: a request that repeats a training record gets that
\* record's row, and one that repeats its four categorical fields gets the
\* one-hot part of that row.
C8_SameColumnsAsTraining ==
    Handled =>
        /\ Accepted
        /\ Len(req.game_vector) = Len(x_normalized[1])
        /\ Len(req.game_vector) =
              Len(FitFromData.v.vocabulary_)
                + SeqSum([ f \in 1..4 |-> Len(FitFromData.e.categories_[f]) ])
        /\ \A i \in 1..Len(data) :
              SameRow(i) =>
                 /\ SubSeq(req.game_vector, BlockStart(FitFromData.v, FitFromData.e, 1),
                           Len(req.game_vector))
                      = SubSeq(x_normalized[i],
                               BlockStart(FitFromData.v, FitFromData.e, 1),
                               Len(x_normalized[i]))
                 /\ req.title = data[i].Name => req.game_vector = x_normalized[i]

C8_TrainingRecordRepeated ==
    Accepted /\ \E i \in 1..Len(data) : SameRow(i) /\ req.title = data[i].Name

---------------------------------------------------------------------------
(* C9 *)

\* C9: the feature vector of a request is the transform of its five values
\* under the state as fitted from the training table, whatever was requested
\* before: the same tuple gives the same vector every time.
C9_SameTupleSameVector ==
    Accepted => req.game_vector = TransformFromData

C9_LaterRequestScaled ==
    Accepted /\ req.n >= 2 /\ \E c \in 1..Len(req.game_vector) : req.game_vector[c].den > 1

---------------------------------------------------------------------------
(* C10 *)

\* what is written is the multiple of 10^-4 nearest to the model's output
NearestToPrediction ==
    LET n == TextValue(prediction_output)
        d == req.prediction.num * Pow10(round_decimals) - n * req.prediction.den
    IN 2 * Abs(d) <= req.prediction.den

\* C10 as stated: the text written for an accepted request is the model's
\* output rounded to 4 decimal places and has exactly 4 decimal digits.
C10_ExactlyFourDecimals ==
    Accepted => ( NearestToPrediction /\ Decimals(prediction_output) = round_decimals )

\* C10 as amended: the text written is the model's output rounded to the
\* nearest multiple of 10^-4, in the shortest digits: at least one and at most
\* four decimal digits, the last of them not a zero unless it is the only one.
C10_RoundedShortestDigits ==
    Accepted =>
        /\ prediction_output = req.text
        /\ NearestToPrediction
        /\ Decimals(prediction_output) >= 1
        /\ Decimals(prediction_output) <= round_decimals
        /\ Decimals(prediction_output) > 1 =>
              prediction_output[Len(prediction_output)] # "0"

C10_InexactOutputWritten ==
    Accepted /\ (req.prediction.num * Pow10(round_decimals)) % req.prediction.den # 0

=============================================================================
